---- MODULE Spec2Model ----
(***************************************************************************)
(* Model of tuft's repository construction and versioning engine           *)
(* (src/tuft/RepoBuilder.py): the file naming scheme, the role record,     *)
(* the role persister, the reconciliation of a role set from a directory   *)
(* and the publish cascade of the repository builder.                      *)
(*                                                                         *)
(* A file name is a sequence of tokens: every decimal digit and the dot    *)
(* are tokens of their own, a role name, an extension or a user path is    *)
(* one token.  str(version) and int(digits) are computed digit by digit.   *)
(***************************************************************************)
EXTENDS Integers, Sequences, FiniteSets, TLC

VARIABLES
    isConsistent,   \* RepoSeed.isConsistent: root.role.signed.consistent_snapshot
    files,          \* role files of the repository directory: file name -> stored dict
    content,        \* user files written to the directory: file name -> bytes
    rr,             \* one role record (OurRole) driven through its own operations
    last,           \* the last operation on rr: its name, what it returned or raised
    ourRoles,       \* RepoBuilder.ourRoles: role name -> OurRole
    userFiles,      \* RepoBuilder.userFiles: path -> bytes
    pc,             \* the builder: "none", "ready", "failed" (its constructor raised), "crashed"
    err,            \* what the builder's last operation raised ("none" if nothing)
    savePos,        \* RepoBuilder.saveMeta: role records the last save got through
    hist,           \* history of the builder, read by the properties only
    rec             \* outcome of the last reconciliation of the directory

vars == <<isConsistent, files, content, rr, last, ourRoles, userFiles, pc, err, savePos, hist, rec>>

builderVars == <<ourRoles, userFiles, pc, err, savePos, hist>>

----------------------------------------------------------------------------
(* Bounds *)

MaxVersion == 3

\* versions of the role files of a directory given to the reconciliation
MaxStored == 2

\* entries of the metadata-file mapping of such a directory's snapshot
MaxMetaEntries == 2

----------------------------------------------------------------------------
(* Role Type Registry: RepoBuilder.py:329-350 *)

ext == "json"

rootRoleFac == [name |-> "root", deps |-> <<>>, hasVersion |-> FALSE]

targetsRoleFac == [name |-> "targets", deps |-> <<"root">>, hasVersion |-> TRUE]

snapshotRoleFac == [name |-> "snapshot", deps |-> <<"targets">>, hasVersion |-> TRUE]

timestampRoleFac == [name |-> "timestamp", deps |-> <<"snapshot">>, hasVersion |-> FALSE]

\* ROLES_MODEL: the non-root roles, by name
ROLES_MODEL == [rn \in {"targets", "snapshot", "timestamp"} |->
                  CASE rn = "targets" -> targetsRoleFac
                    [] rn = "snapshot" -> snapshotRoleFac
                    [] OTHER -> timestampRoleFac]

ROOT_ROLE_FAC == rootRoleFac

AllFacs == {rootRoleFac, targetsRoleFac, snapshotRoleFac, timestampRoleFac}

\* None, for an optional version
NoVersion == -1

EmptyMap == <<>>

----------------------------------------------------------------------------
(* File Naming Scheme: OurRoleLayout *)

DigitChars == <<"0", "1", "2", "3", "4", "5", "6", "7", "8", "9">>

DigitSet == {DigitChars[i] : i \in 1..10}

DigitValue(c) == (CHOOSE i \in 1..10 : DigitChars[i] = c) - 1

RECURSIVE str(_)
\* Python's str(int) for a version >= 0: its decimal digits
str(n) == IF n < 10 THEN <<DigitChars[n + 1]>>
          ELSE str(n \div 10) \o <<DigitChars[(n % 10) + 1]>>

RECURSIVE int(_)
\* Python's int(str) on a non-empty sequence of digits
int(ds) == IF Len(ds) = 1 THEN DigitValue(ds[1])
           ELSE 10 * int(SubSeq(ds, 1, Len(ds) - 1)) + DigitValue(ds[Len(ds)])

getConsistentFileName(e, roleName, version) == version \o <<".", roleName, ".", e>>

getSimpleFileName(e, roleName) == <<roleName, ".", e>>

getFileName(e, roleFactory, roleVersion, consistent) ==
    IF consistent
    THEN getConsistentFileName(e, roleFactory.name, str(roleVersion))
    ELSE getSimpleFileName(e, roleFactory.name)

RECURSIVE DigitPrefix(_)
\* the longest prefix of digits of a file name: what (\d+) captures when the
\* pattern goes on with a literal dot
DigitPrefix(fn) == IF Len(fn) = 0 \/ fn[1] \notin DigitSet THEN <<>>
                   ELSE <<fn[1]>> \o DigitPrefix(Tail(fn))

\* roleGlobFnRegExp.match(fn): "(\d+)\.<roleName>\.<ext>" matched at the start
\* of fn (re.match does not anchor the end)
roleGlobFnRegExpMatch(e, roleName, fn) ==
    LET k == Len(DigitPrefix(fn))
    IN  /\ k >= 1
        /\ Len(fn) >= k + 4
        /\ SubSeq(fn, k + 1, k + 4) = <<".", roleName, ".", e>>

\* variant of sortedByVersion: the pairs stay in the order of the listing
sortedByVersion_asListed(vs) == vs

RECURSIVE sortedByVersion(_)
\* sorted(versions, key=lambda x: x[0]) by insertion; stable
sortedByVersion(vs) ==
    IF Len(vs) <= 1 THEN vs
    ELSE LET init == sortedByVersion(SubSeq(vs, 1, Len(vs) - 1))
             x == vs[Len(vs)]
             k == Cardinality({i \in 1..Len(init) : init[i][1] <= x[1]})
         IN  SubSeq(init, 1, k) \o <<x>> \o SubSeq(init, k + 1, Len(init))

RECURSIVE matchingVersions(_, _, _)
matchingVersions(e, roleName, fileNames) ==
    IF Len(fileNames) = 0 THEN <<>>
    ELSE LET fn == Head(fileNames)
             rest == matchingVersions(e, roleName, Tail(fileNames))
         IN  IF roleGlobFnRegExpMatch(e, roleName, fn)
             THEN <<(<<int(DigitPrefix(fn)), fn>>)>> \o rest
             ELSE rest

\* OurRoleLayout.discoverConsistentVersionsFromFileNames: the sorted
\* (version, fileName) pairs, or FileNotFoundError when there is none
discoverConsistentVersionsFromFileNames(e, roleFactory, fileNames) ==
    LET versions == sortedByVersion(matchingVersions(e, roleFactory.name, fileNames))
    IN  IF Len(versions) = 0
        THEN [raised |-> "FileNotFoundError", versions |-> <<>>]
        ELSE [raised |-> "none", versions |-> versions]

discoverSipleVersionsFromFileNames(e, roleFactory, fileNames) ==
    LET simpleFileName == getSimpleFileName(e, roleFactory.name)
    IN  IF simpleFileName \in {fileNames[i] : i \in 1..Len(fileNames)}
        THEN [raised |-> "none", versions |-> <<(<<NoVersion, simpleFileName>>)>>]
        ELSE [raised |-> "none", versions |-> <<>>]

discoverVersionsFromFileNames(e, roleFactory, fileNames, consistent) ==
    IF consistent
    THEN discoverConsistentVersionsFromFileNames(e, roleFactory, fileNames)
    ELSE discoverSipleVersionsFromFileNames(e, roleFactory, fileNames)

RECURSIVE SetToSeq(_)
\* an iteration order of a collection of file names
SetToSeq(S) == IF S = {} THEN <<>>
               ELSE LET x == CHOOSE y \in S : TRUE
                    IN  <<x>> \o SetToSeq(S \ {x})

----------------------------------------------------------------------------
(* Role Record: RoleFactory and OurRole *)

Keys == [rn \in {"root", "targets", "snapshot", "timestamp"} |-> <<"key", rn>>]

NoSig == [key |-> <<"key", "none">>, over |-> <<>>]

\* what a signature covers: the signed payload of the role
signedPart(r) == <<r.version, r.snapver, r.meta, r.targets, r.consistent_snapshot>>

\* Metadata(self.ctor(expires=..., **kwargs)) wrapped by OurRole.__init__: the
\* payload the constructors of the metadata library fill in by default
\* (version 1; a Timestamp refers to snapshot version 1; a Snapshot lists
\* "targets.json" at version 1, the entries RepoBuilder.py:416 speaks of),
\* with both flags down
newRole(roleFactory, kwargs) ==
    [name |-> roleFactory.name,
     version |-> 1,
     needsSigning |-> FALSE,
     needsSaving |-> FALSE,
     sig |-> NoSig,
     snapver |-> IF roleFactory.name = "timestamp" THEN 1 ELSE 0,
     meta |-> IF roleFactory.name = "snapshot"
              THEN (getSimpleFileName(ext, "targets") :> 1) ELSE EmptyMap,
     targets |-> EmptyMap,
     consistent_snapshot |-> IF roleFactory.name = "root"
                             THEN (IF "consistent_snapshot" \in DOMAIN kwargs
                                   THEN kwargs.consistent_snapshot ELSE TRUE)
                             ELSE FALSE]

\* variant of the needsSigning setter: the flag alone is stored
setNeedsSigning_only(r, v) == [r EXCEPT !.needsSigning = v]

\* OurRole.needsSigning setter
setNeedsSigning(r, v) ==
    IF r.needsSigning # v
    THEN [r EXCEPT !.needsSaving = TRUE, !.needsSigning = v]
    ELSE r

\* OurRole.needsSaving setter
setNeedsSaving(r, v) == [r EXCEPT !.needsSaving = v]

\* variant of set_version: the version is stored without marking the record
set_version_quiet(r, v) == [r EXCEPT !.version = v]

\* OurRole._version setter
set_version(r, v) == setNeedsSigning([r EXCEPT !.version = v], TRUE)

\* variant of setVersion: the decrease check is left out
setVersion_unchecked(r, v) ==
    IF v # r.version THEN [raised |-> "none", role |-> set_version(r, v)]
    ELSE [raised |-> "none", role |-> r]

\* OurRole.version setter: raises on a decrease, stores a different value
setVersion(r, v) ==
    IF v < r.version THEN [raised |-> "ValueError: Version decrease", role |-> r]
    ELSE IF v # r.version THEN [raised |-> "none", role |-> set_version(r, v)]
    ELSE [raised |-> "none", role |-> r]

\* variant of createEmpty: the record keeps the version of its constructor
createEmpty_atOne(roleFactory, kwargs) == set_version(newRole(roleFactory, kwargs), 1)

\* RoleFactory.createEmpty
createEmpty(roleFactory, kwargs) == set_version(newRole(roleFactory, kwargs), 0)

\* role.to_dict(): the stored form of a record, without the flags of OurRole
to_dict(r) ==
    [name |-> r.name, version |-> r.version, sig |-> r.sig, snapver |-> r.snapver,
     meta |-> r.meta, targets |-> r.targets,
     consistent_snapshot |-> r.consistent_snapshot]

\* variant of fromDict: the record comes up needing save
fromDict_unsaved(roleFactory, dic) ==
    [name |-> dic.name, version |-> dic.version,
     needsSigning |-> FALSE, needsSaving |-> TRUE,
     sig |-> dic.sig, snapver |-> dic.snapver, meta |-> dic.meta,
     targets |-> dic.targets, consistent_snapshot |-> dic.consistent_snapshot]

\* RoleFactory.fromDict: OurRole.__init__ around the parsed payload
fromDict(roleFactory, dic) ==
    [name |-> dic.name, version |-> dic.version,
     needsSigning |-> FALSE, needsSaving |-> FALSE,
     sig |-> dic.sig, snapver |-> dic.snapver, meta |-> dic.meta,
     targets |-> dic.targets, consistent_snapshot |-> dic.consistent_snapshot]

\* variant of bumpVersion: the version is stored again without the increment
bumpVersion_same(r) == set_version(r, r.version)

\* OurRole.bumpVersion
bumpVersion(r) == set_version(r, r.version + 1)

\* self.role.sign(signer): the signature over the payload replaces the old ones
roleSign(r, key) == [r EXCEPT !.sig = [key |-> key, over |-> signedPart(r)]]

\* variant of sign: signs whether or not the record is dirty
sign_always(r, key) ==
    [ret |-> r.needsSigning,
     role |-> setNeedsSaving(setNeedsSigning(roleSign(bumpVersion(r), key), FALSE), TRUE)]

\* OurRole.sign
sign(r, key) ==
    IF r.needsSigning
    THEN [ret |-> TRUE,
          role |-> setNeedsSaving(setNeedsSigning(roleSign(bumpVersion(r), key), FALSE), TRUE)]
    ELSE [ret |-> FALSE, role |-> r]

\* KeyManager.sign
KeyManager_sign(keys, oR) == sign(oR, keys[oR.name])

----------------------------------------------------------------------------
(* Role Persister and the strategy's naming *)

writeFile(dir, fn, data) == [f \in (DOMAIN dir) \cup {fn} |-> IF f = fn THEN data ELSE dir[f]]

\* RolePersister._save
RolePersister_write(dir, consistent, role) ==
    writeFile(dir, getFileName(ext, [name |-> role.name], role.version, consistent), to_dict(role))

\* variant of RolePersister.save: a dirty record is skipped without an error
RolePersister_save_skip(dir, consistent, role) ==
    IF role.needsSaving /\ ~role.needsSigning
    THEN [raised |-> "none",
          dir |-> RolePersister_write(dir, consistent, role),
          role |-> setNeedsSaving(role, FALSE)]
    ELSE [raised |-> "none", dir |-> dir, role |-> role]

\* RolePersister.save
RolePersister_save(dir, consistent, role) ==
    IF role.needsSaving
    THEN IF role.needsSigning
         THEN [raised |-> "RuntimeError: The data for the role is unsigned!",
               dir |-> dir, role |-> role]
         ELSE [raised |-> "none",
               dir |-> RolePersister_write(dir, consistent, role),
               role |-> setNeedsSaving(role, FALSE)]
    ELSE [raised |-> "none", dir |-> dir, role |-> role]

facOf(roleName) == IF roleName = "root" THEN ROOT_ROLE_FAC ELSE ROLES_MODEL[roleName]

\* variant of isRoleConsistent: hasVersion is not looked at
isRoleConsistent_always(roleFactory, consistent) == consistent

\* RolesStrategy.isRoleConsistent
isRoleConsistent(roleFactory, consistent) == consistent /\ roleFactory.hasVersion

\* RolesStrategy.fileNameForRole
fileNameForRole(roleFactory, roleVersion, consistent) ==
    getFileName(ext, roleFactory, roleVersion, isRoleConsistent(roleFactory, consistent))

\* RolesStrategy.save
RolesStrategy_save(dir, consistent, role) ==
    RolePersister_save(dir, isRoleConsistent(facOf(role.name), consistent), role)

\* variant of loadFromData: the expected version is not compared
loadFromData_unchecked(roleFactory, data, expectedVersion) ==
    [raised |-> "none", role |-> fromDict(roleFactory, data)]

\* RolePersister.loadFromData
loadFromData(roleFactory, data, expectedVersion) ==
    LET loaded == fromDict(roleFactory, data)
    IN  IF expectedVersion # NoVersion /\ loaded.version # expectedVersion
        THEN [raised |-> "RuntimeError: Version within file doesn't match the expected version",
              role |-> loaded]
        ELSE [raised |-> "none", role |-> loaded]

\* RolePersister.loadFromFile: path.read_bytes() raises when the file is absent
loadFromFile(roleFactory, dir, path, expectedVersion) ==
    IF path \notin DOMAIN dir
    THEN [raised |-> "FileNotFoundError", role |-> newRole(roleFactory, EmptyMap)]
    ELSE loadFromData(roleFactory, dir[path], expectedVersion)

----------------------------------------------------------------------------
(* Loading: RolePersister.loadFromRepo, loadOrCreate and the reconciliation *)

\* the repoRoot argument: None, or a directory with its role files
NoRepo == [isNone |-> TRUE, dir |-> EmptyMap]

RepoAt(dir) == [isNone |-> FALSE, dir |-> dir]

\* OurRoleLayout.discoverSimple
discoverSimple(e, roleFactory) ==
    [raised |-> "none", version |-> NoVersion, path |-> getSimpleFileName(e, roleFactory.name)]

\* versions[-1] of a successful discovery
lastVersion(found) ==
    IF found.raised # "none"
    THEN [raised |-> found.raised, version |-> NoVersion, path |-> <<>>]
    ELSE [raised |-> "none",
          version |-> found.versions[Len(found.versions)][1],
          path |-> found.versions[Len(found.versions)][2]]

\* OurRoleLayout.discoverConsistent: the highest version among the files of the directory
discoverConsistent(e, roleFactory, dir) ==
    lastVersion(discoverConsistentVersionsFromFileNames(e, roleFactory, SetToSeq(DOMAIN dir)))

\* OurRoleLayout.discoverBlindFromRepo
discoverBlindFromRepo(e, roleFactory, dir, consistent) ==
    IF consistent THEN discoverConsistent(e, roleFactory, dir)
    ELSE discoverSimple(e, roleFactory)

\* RolePersister.loadFromRepo after the blind discovery
loadDiscovered(roleFactory, dir, consistent, found) ==
    IF found.raised # "none"
    THEN [raised |-> found.raised, role |-> newRole(roleFactory, EmptyMap)]
    ELSE loadFromFile(roleFactory, dir, found.path,
                      IF consistent THEN found.version ELSE NoVersion)

\* variant of loadFromRepo: the file of the requested version is loaded
\* without an expected version
loadFromRepo_unchecked(roleFactory, dir, consistent, versionToLoad) ==
    IF versionToLoad = NoVersion
    THEN loadDiscovered(roleFactory, dir, consistent,
                        discoverBlindFromRepo(ext, roleFactory, dir, consistent))
    ELSE loadFromFile(roleFactory, dir,
                      getFileName(ext, roleFactory, versionToLoad, consistent), NoVersion)

\* RolePersister.loadFromRepo
loadFromRepo(roleFactory, dir, consistent, versionToLoad) ==
    IF versionToLoad = NoVersion
    THEN loadDiscovered(roleFactory, dir, consistent,
                        discoverBlindFromRepo(ext, roleFactory, dir, consistent))
    ELSE loadFromFile(roleFactory, dir,
                      getFileName(ext, roleFactory, versionToLoad, consistent), versionToLoad)

\* a record as loadOrCreate returns it for a record created fresh
created(roleFactory) ==
    [raised |-> "none", role |-> createEmpty(roleFactory, EmptyMap), isLoaded |-> FALSE]

\* the try/except of RolePersister.loadOrCreate: only FileNotFoundError turns
\* into a fresh record
orCreate(roleFactory, got) ==
    IF got.raised = "FileNotFoundError" THEN created(roleFactory)
    ELSE [raised |-> got.raised, role |-> got.role, isLoaded |-> got.raised = "none"]

\* RolePersister.loadOrCreate
loadOrCreate(roleFactory, repoRoot, consistent, versionToLoad) ==
    IF ~repoRoot.isNone
    THEN orCreate(roleFactory, loadFromRepo(roleFactory, repoRoot.dir, consistent, versionToLoad))
    ELSE created(roleFactory)

\* RolesStrategy.loadOrCreate
RolesStrategy_loadOrCreate(roleFactory, repoRoot, consistent, versionToLoad) ==
    loadOrCreate(roleFactory, repoRoot, isRoleConsistent(roleFactory, consistent), versionToLoad)

\* variant of versionsDisagree: the cross-check never fires
versionsDisagree_never(expectedVersionFromFileName, expectedVersion) == FALSE

\* the comparison of RepoBuilder.py:434: the version of the file name against
\* the version the snapshot records for that file name
versionsDisagree(expectedVersionFromFileName, expectedVersion) ==
    expectedVersionFromFileName # NoVersion /\ expectedVersion # expectedVersionFromFileName

\* what a step of the reconciliation raised, without a role
raising(fac, raised) == [raised |-> raised, role |-> newRole(fac, EmptyMap), isLoaded |-> FALSE]

\* a role loaded by self.loadFromFile: every exception escapes
asLoaded(got) == [raised |-> got.raised, role |-> got.role, isLoaded |-> got.raised = "none"]

\* RepoBuilder.py:431-438: the single candidate is cross-checked and loaded
loadCandidate(fac, repoRoot, signedMetadataFiles, expectedVersionFromFileName, fileName) ==
    IF versionsDisagree(expectedVersionFromFileName, signedMetadataFiles[fileName])
    THEN raising(fac, "ValueError: Expected version from file name doesn't math the one from metadata")
    ELSE asLoaded(loadFromFile(fac, repoRoot.dir, fileName, signedMetadataFiles[fileName]))

\* variant of resolveFound: of several candidates the first is taken
resolveFound_first(fac, repoRoot, signedMetadataFiles, found) ==
    IF found.raised # "none" THEN raising(fac, found.raised)
    ELSE IF Len(found.versions) # 0
    THEN loadCandidate(fac, repoRoot, signedMetadataFiles,
                       found.versions[1][1], found.versions[1][2])
    ELSE created(fac)

\* RepoBuilder.py:427-440: what becomes of the discovered candidates
resolveFound(fac, repoRoot, signedMetadataFiles, found) ==
    IF found.raised # "none" THEN raising(fac, found.raised)
    ELSE IF Len(found.versions) # 0
    THEN IF Len(found.versions) > 1
         THEN raising(fac, "RuntimeError: Not unique metadata file for a role")
         ELSE loadCandidate(fac, repoRoot, signedMetadataFiles,
                            found.versions[1][1], found.versions[1][2])
    ELSE created(fac)

\* RolesStrategy.loadOrCreateRoles, the body of its loop (RepoBuilder.py:424-440)
\* for one remaining role
resolveRole(rn, repoRoot, consistent, signedMetadataFiles) ==
    resolveFound(ROLES_MODEL[rn], repoRoot, signedMetadataFiles,
                 discoverVersionsFromFileNames(ext, ROLES_MODEL[rn],
                                               SetToSeq(DOMAIN signedMetadataFiles),
                                               isRoleConsistent(ROLES_MODEL[rn], consistent)))

Failed(raised) == [raised |-> raised, roles |-> EmptyMap, isLoaded |-> EmptyMap]

\* the order in which loadOrCreateRoles fills rolesDict, which is the order of
\* RepoBuilder.ourRoles.values()
roleOrder == <<"timestamp", "snapshot", "targets">>

\* RepoBuilder.py:415-417: a snapshot that was not loaded loses the entries its
\* constructor put in
clearedIfCreated(sn) == IF ~sn.isLoaded THEN [sn.role EXCEPT !.meta = EmptyMap] ELSE sn.role

\* RepoBuilder.py:444-447: the role set, or what the loop raised
rolesDict(ts, sn, snapshot, got) ==
    IF \E rn \in DOMAIN got : got[rn].raised # "none"
    THEN Failed(got[CHOOSE rn \in DOMAIN got : got[rn].raised # "none"].raised)
    ELSE [raised |-> "none",
          roles |-> [rn \in {"timestamp", "snapshot"} \cup DOMAIN got |->
                       IF rn = "timestamp" THEN ts.role
                       ELSE IF rn = "snapshot" THEN snapshot
                       ELSE got[rn].role],
          isLoaded |-> [rn \in {"timestamp", "snapshot"} \cup DOMAIN got |->
                       IF rn = "timestamp" THEN ts.isLoaded
                       ELSE IF rn = "snapshot" THEN sn.isLoaded
                       ELSE got[rn].isLoaded]]

\* RepoBuilder.py:419-442: the remaining roles are resolved from the snapshot's mapping
loadRemaining(ts, sn, snapshot, repoRoot, consistent) ==
    rolesDict(ts, sn, snapshot,
              [rn \in (DOMAIN ROLES_MODEL) \ {"timestamp", "snapshot"} |->
                 resolveRole(rn, repoRoot, consistent, snapshot.meta)])

\* RepoBuilder.py:413-417: the snapshot, at the version the timestamp refers to
loadSnapshot(ts, sn, repoRoot, consistent) ==
    IF sn.raised # "none" THEN Failed(sn.raised)
    ELSE loadRemaining(ts, sn, clearedIfCreated(sn), repoRoot, consistent)

\* RepoBuilder.py:412-413: the timestamp, loaded blindly under its simple name
loadTimestamp(ts, repoRoot, consistent) ==
    IF ts.raised # "none" THEN Failed(ts.raised)
    ELSE loadSnapshot(ts,
                      RolesStrategy_loadOrCreate(ROLES_MODEL["snapshot"], repoRoot, FALSE,
                                                 ts.role.snapver),
                      repoRoot, consistent)

\* RolesStrategy.loadOrCreateRoles
loadOrCreateRoles(repoRoot, consistent) ==
    loadTimestamp(RolesStrategy_loadOrCreate(ROLES_MODEL["timestamp"], repoRoot, FALSE, NoVersion),
                  repoRoot, consistent)

----------------------------------------------------------------------------
(* The operations of one role record *)

NoRec == [ran |-> FALSE, useDir |-> FALSE, raised |-> "none", roles |-> EmptyMap, isLoaded |-> EmptyMap]

\* what the properties remember of the builder's past:
\*   fromScratch  every role of the builder was created fresh when it was constructed
\*   inSync       the builder was loaded from the directory's three role files,
\*                or has completed a save into the directory
\*   cascade      how far the last operations went through bindContent,
\*                bindMetadata, stamp in this order (3: a complete cascade)
\*   lastOp       the last operation of the builder
\*   writes       role files written by the last save
\*   torn         the last save stopped between two role-file writes
\*   cycleSave    the last save began right after a complete cascade
\*   syncSave     the last save began with inSync
\*   base         the versions of the builder's records when it was constructed
\*   cycles       the complete cascades the builder has run
InitHist == [fromScratch |-> FALSE, inSync |-> FALSE, cascade |-> 0, lastOp |-> "none",
             writes |-> 0, torn |-> FALSE, cycleSave |-> FALSE, syncSave |-> FALSE,
             base |-> EmptyMap, cycles |-> 0]

kwargsFor(roleFactory, consistent) ==
    IF roleFactory.name = "root" THEN [consistent_snapshot |-> consistent] ELSE EmptyMap

Last(op, arg, before, ret, raised, wrote) ==
    [op |-> op, arg |-> arg, before |-> before, ret |-> ret, raised |-> raised, wrote |-> wrote]

builderIdle ==
    /\ ourRoles = EmptyMap
    /\ userFiles = EmptyMap
    /\ pc = "none"
    /\ err = "none"
    /\ savePos = 0
    /\ hist = InitHist
    /\ rec = NoRec

InitRole ==
    /\ isConsistent \in BOOLEAN
    /\ files = EmptyMap
    /\ content = EmptyMap
    /\ \E fac \in AllFacs :
          /\ rr = createEmpty(fac, kwargsFor(fac, isConsistent))
          /\ last = Last("createEmpty", NoVersion, rr, FALSE, "none", FALSE)
    /\ builderIdle

\* roleClass.createEmpty(roleFactory, **kwargs): a new record of the same kind
RoleCreateEmpty ==
    \E fac \in {facOf(rr.name)} :
       /\ rr' = createEmpty(fac, kwargsFor(fac, isConsistent))
       /\ last' = Last("createEmpty", NoVersion, rr, FALSE, "none", FALSE)
       /\ UNCHANGED <<isConsistent, files, content, builderVars, rec>>

\* role.version = v
RoleSetVersion ==
    \E v \in 0..MaxVersion :
       LET res == setVersion(rr, v)
       IN  /\ rr' = res.role
           /\ last' = Last("setVersion", v, rr, FALSE, res.raised, FALSE)
           /\ UNCHANGED <<isConsistent, files, content, builderVars, rec>>

\* role.bumpVersion()
RoleBumpVersion ==
    /\ rr.version < MaxVersion
    /\ rr' = bumpVersion(rr)
    /\ last' = Last("bumpVersion", NoVersion, rr, FALSE, "none", FALSE)
    /\ UNCHANGED <<isConsistent, files, content, builderVars, rec>>

\* keys.sign(role)
RoleSign ==
    /\ rr.needsSigning => rr.version < MaxVersion
    /\ LET res == KeyManager_sign(Keys, rr)
       IN  /\ rr' = res.role
           /\ last' = Last("sign", NoVersion, rr, res.ret, "none", FALSE)
    /\ UNCHANGED <<isConsistent, files, content, builderVars, rec>>

\* STRATEGY.save(repoRoot, isConsistent, role)
RoleSave ==
    LET res == RolesStrategy_save(files, isConsistent, rr)
    IN  /\ rr' = res.role
        /\ files' = res.dir
        /\ last' = Last("save", NoVersion, rr, FALSE, res.raised, res.dir # files)
        /\ UNCHANGED <<isConsistent, content, builderVars, rec>>

\* STRATEGY.loadFromFile(roleFactory, path, expectedVersion) of a file of the directory
RoleLoad ==
    \E fn \in DOMAIN files, expectedVersion \in {NoVersion} \cup (1..MaxVersion) :
       LET res == loadFromFile(facOf(files[fn].name), files, fn, expectedVersion)
       IN  /\ rr' = IF res.raised = "none" THEN res.role ELSE rr
           /\ last' = Last("load", expectedVersion, rr, FALSE, res.raised, FALSE)
           /\ UNCHANGED <<isConsistent, files, content, builderVars, rec>>

NextRole ==
    \/ RoleCreateEmpty
    \/ RoleSetVersion
    \/ RoleBumpVersion
    \/ RoleSign
    \/ RoleSave
    \/ RoleLoad

SpecRole == InitRole /\ [][NextRole]_vars

----------------------------------------------------------------------------
(* Properties of the role record *)

\* C1: signing a dirty role record raises its version by exactly one, clears
\* needsSigning, sets needsSaving and returns true, for every role kind and
\* every starting version, the sentinel 0 included.
C1_SignDirty ==
    (last.op = "sign" /\ last.before.needsSigning) =>
        /\ last.ret = TRUE
        /\ rr.version = last.before.version + 1
        /\ ~rr.needsSigning
        /\ rr.needsSaving
        /\ rr.name = last.before.name

C1_Witness ==
    /\ last.op = "sign"
    /\ last.before.needsSigning
    /\ last.before.version = 0
    /\ rr.version = 1

\* C2: signing a role record that is not dirty returns false and changes
\* nothing: version, signatures, needsSigning and needsSaving stay as they were.
C2_SignCleanNoOp ==
    (last.op = "sign" /\ ~last.before.needsSigning) =>
        /\ last.ret = FALSE
        /\ rr = last.before

C2_Witness ==
    /\ last.op = "sign"
    /\ ~last.before.needsSigning
    /\ last.before.needsSaving
    /\ last.before.version >= 1

\* C3: setting the version to a value strictly below the current one fails with
\* the version-decrease error and leaves version and flags unchanged.
C3_VersionDecrease ==
    (last.op = "setVersion" /\ last.arg < last.before.version) =>
        /\ last.raised = "ValueError: Version decrease"
        /\ rr = last.before

C3_Witness ==
    /\ last.op = "setVersion"
    /\ last.arg < last.before.version
    /\ last.arg >= 1
    /\ ~last.before.needsSigning

\* C4: in every state a record reaches through createEmpty, load, version set,
\* bumpVersion, sign and save, saving it while it is dirty fails with the
\* publish-before-sign error and writes no file; it is never silently skipped.
C4_SaveDirtyFails ==
    (last.op = "save" /\ last.before.needsSigning) =>
        /\ last.raised = "RuntimeError: The data for the role is unsigned!"
        /\ ~last.wrote
        /\ rr = last.before

C4_Witness ==
    /\ last.op = "save"
    /\ last.before.needsSigning
    /\ last.before.version >= 2
    /\ DOMAIN files # {}

----------------------------------------------------------------------------
(* Reconciliation of a given directory *)

tsName == getSimpleFileName(ext, "timestamp")

snName == getSimpleFileName(ext, "snapshot")

tgName == getSimpleFileName(ext, "targets")

\* the stored form of a signed role record
storedRole(rn, version, snapver, meta, targets) ==
    LET r == [newRole(facOf(rn), EmptyMap) EXCEPT
                 !.version = version, !.snapver = snapver, !.meta = meta, !.targets = targets]
    IN  to_dict(roleSign(r, Keys[rn]))

\* names a metadata-file mapping or a directory may hold for the targets role
TargetsNames == {tgName} \cup {getConsistentFileName(ext, "targets", str(n)) : n \in 1..MaxStored}

MetaFamily ==
    UNION {[D -> 1..MaxStored] : D \in {D \in SUBSET TargetsNames : Cardinality(D) <= MaxMetaEntries}}

\* the directories given to the reconciliation: an optional timestamp file, an
\* optional snapshot file and at most one targets file
DirFamily ==
    LET tsOpts == {EmptyMap} \cup {tsName :> storedRole("timestamp", v, v, EmptyMap, EmptyMap) : v \in 1..MaxStored}
        snOpts == {EmptyMap} \cup {snName :> storedRole("snapshot", v, 0, m, EmptyMap) :
                                     v \in 1..MaxStored, m \in MetaFamily}
        tgOpts == {EmptyMap} \cup {fn :> storedRole("targets", v, 0, EmptyMap, EmptyMap) :
                                     fn \in TargetsNames, v \in 1..MaxStored}
    IN  {a @@ b @@ c : a \in tsOpts, b \in snOpts, c \in tgOpts}

InitReconcile ==
    /\ isConsistent \in BOOLEAN
    /\ files \in DirFamily
    /\ content = EmptyMap
    /\ rr = createEmpty(rootRoleFac, kwargsFor(rootRoleFac, isConsistent))
    /\ last = Last("createEmpty", NoVersion, rr, FALSE, "none", FALSE)
    /\ builderIdle

repoRootOf(useDir, dir) == IF useDir THEN RepoAt(dir) ELSE NoRepo

Outcome(useDir, got) ==
    [ran |-> TRUE, useDir |-> useDir, raised |-> got.raised,
     roles |-> got.roles, isLoaded |-> got.isLoaded]

\* STRATEGY.loadOrCreateRoles(repoRoot, isConsistent) on the directory, or on no directory
Reconcile ==
    /\ \E useDir \in BOOLEAN :
          rec' = Outcome(useDir, loadOrCreateRoles(repoRootOf(useDir, files), isConsistent))
    /\ UNCHANGED <<isConsistent, files, content, rr, last, builderVars>>

NextReconcile == Reconcile

SpecReconcile == InitReconcile /\ [][NextReconcile]_vars

isFresh(r) == r.version = 0 /\ r.needsSigning /\ r.needsSaving /\ r.targets = EmptyMap

\* C6: reconciling an empty directory, or no directory, in either mode succeeds
\* with a role record for every declared kind, each freshly created (version 0,
\* dirty), and with an empty metadata-file mapping in the Snapshot.
C6_EmptyReconcile ==
    (rec.ran /\ (~rec.useDir \/ files = EmptyMap)) =>
        /\ rec.raised = "none"
        /\ DOMAIN rec.roles = DOMAIN ROLES_MODEL
        /\ \A rn \in DOMAIN rec.roles : isFresh(rec.roles[rn])
        /\ rec.roles["snapshot"].meta = EmptyMap

\* the file names of a metadata-file mapping that carry a version for the targets role
targetsCandidates(meta) ==
    {fn \in DOMAIN meta : \E n \in 0..(MaxStored + MaxVersion) :
                             fn = getConsistentFileName(ext, "targets", str(n))}

nameVersion(fn) ==
    CHOOSE n \in 0..(MaxStored + MaxVersion) : fn = getConsistentFileName(ext, "targets", str(n))

\* the directory's snapshot file is the one the reconciliation accepts: its
\* version is the one the timestamp refers to (1 for a timestamp created fresh)
snapshotAccepted ==
    /\ snName \in DOMAIN files
    /\ files[snName].version = (IF tsName \in DOMAIN files THEN files[tsName].snapver ELSE 1)

\* consistent mode, the snapshot names one versioned targets file and records
\* for it another version than the one of the name
C9_Case ==
    /\ rec.ran /\ rec.useDir /\ isConsistent
    /\ snapshotAccepted
    /\ Cardinality(targetsCandidates(files[snName].meta)) = 1
    /\ \E fn \in targetsCandidates(files[snName].meta) : nameVersion(fn) # files[snName].meta[fn]

\* C9: in consistent mode, when the version of a role's file name disagrees with
\* the version the Snapshot records for that file, the reconciliation aborts
\* with the version-disagreement error and returns no role.
C9_NameVersionDisagree ==
    C9_Case =>
        /\ rec.raised = "ValueError: Expected version from file name doesn't math the one from metadata"
        /\ rec.roles = EmptyMap

\* the disagreeing name is on disk too, with a payload at either of the two versions
C9_Witness ==
    /\ C9_Case
    /\ \E fn \in targetsCandidates(files[snName].meta) :
          /\ fn \in DOMAIN files
          /\ files[fn].version = files[snName].meta[fn]

\* the file the reconciliation expects for each role, given the directory
expectedAbsent(rn) ==
    CASE rn = "timestamp" -> tsName \notin DOMAIN files
      [] rn = "snapshot" -> snName \notin DOMAIN files
      [] OTHER -> /\ snapshotAccepted
                  /\ \E fn \in DOMAIN files[snName].meta : fn \notin DOMAIN files

\* C10: the absence of the file expected for Timestamp, Snapshot or Targets
\* never fails the reconciliation, in either mode, also when the Snapshot
\* mapping names a Targets file that is not in the directory: the absent role
\* is created fresh instead.
C10_AbsentCreatesFresh ==
    (rec.ran /\ rec.useDir) =>
        /\ rec.raised # "FileNotFoundError"
        /\ rec.raised = "none" =>
              \A rn \in DOMAIN rec.roles : expectedAbsent(rn) => isFresh(rec.roles[rn])

----------------------------------------------------------------------------
(* Repository Builder *)

UserPaths == {"a.txt"}

UserData == {"hello", "world!"}

\* len(data)
length(data) == IF data = "hello" THEN 5 ELSE 6

\* hashlib.sha256(data).hexdigest()
sha256(data) ==
    IF data = "hello"
    THEN "2cf24dba5fb0a30e26e83b2ac5b9e29e1b161e5c1fa7425e73043362938b9824"
    ELSE "711e9609339e92b03ddc0a211827dba421f38f9ed8b9d806e1ffdd8c15ffa03d"

\* TargetFile.from_data(localTargetPath, data)
TargetFile_from_data(path, data) == [length |-> length(data), sha256 |-> sha256(data)]

EXCLUDED_FROM_SNAPSHOT == {"snapshot", "timestamp"}

\* variant of bindContent: the payload holds the user files' entries only
bindContent_fresh(roles, ufiles) ==
    LET t == roles["targets"]
        bound == [t EXCEPT !.targets =
                    [path \in DOMAIN ufiles |-> TargetFile_from_data(path, ufiles[path])]]
    IN  [roles EXCEPT !["targets"] = KeyManager_sign(Keys, setNeedsSigning(bound, TRUE)).role]

\* variant of bindContent: without user files the Targets are left alone
bindContent_ifFiles(roles, ufiles) ==
    LET t == roles["targets"]
        bound == [t EXCEPT !.targets =
                    [path \in (DOMAIN t.targets) \cup (DOMAIN ufiles) |->
                       IF path \in DOMAIN ufiles
                       THEN TargetFile_from_data(path, ufiles[path])
                       ELSE t.targets[path]]]
    IN  IF ufiles = EmptyMap THEN roles
        ELSE [roles EXCEPT !["targets"] = KeyManager_sign(Keys, setNeedsSigning(bound, TRUE)).role]

\* RepoBuilder.bindContent
bindContent(roles, ufiles) ==
    LET t == roles["targets"]
        bound == [t EXCEPT !.targets =
                    [path \in (DOMAIN t.targets) \cup (DOMAIN ufiles) |->
                       IF path \in DOMAIN ufiles
                       THEN TargetFile_from_data(path, ufiles[path])
                       ELSE t.targets[path]]]
    IN  [roles EXCEPT !["targets"] = KeyManager_sign(Keys, setNeedsSigning(bound, TRUE)).role]

\* the roles bindMetadata records in the snapshot
snapshotted(roles) == {rn \in DOMAIN roles : rn \notin EXCLUDED_FROM_SNAPSHOT}

\* the entries bindMetadata writes: fileName -> MetaFile(version)
newMetaEntries(roles, consistent) ==
    LET fileName(rn) == fileNameForRole(facOf(rn), roles[rn].version, consistent)
        names == {fileName(rn) : rn \in snapshotted(roles)}
    IN  [fn \in names |-> roles[CHOOSE rn \in snapshotted(roles) : fileName(rn) = fn].version]

\* RepoBuilder.bindMetadata; MetaFile(version=0) is refused by the metadata library
bindMetadata(roles, consistent) ==
    IF \E rn \in snapshotted(roles) : roles[rn].version <= 0
    THEN [raised |-> "ValueError: Metafile version must be > 0", roles |-> roles]
    ELSE LET sn == roles["snapshot"]
             new == newMetaEntries(roles, consistent)
             bound == [sn EXCEPT !.meta = [fn \in (DOMAIN sn.meta) \cup (DOMAIN new) |->
                                             IF fn \in DOMAIN new THEN new[fn] ELSE sn.meta[fn]]]
         IN  [raised |-> "none",
              roles |-> [roles EXCEPT !["snapshot"] =
                           KeyManager_sign(Keys, setNeedsSigning(bound, TRUE)).role]]

\* variant of stamp: the reference to the snapshot is left as it was
stamp_stale(roles) ==
    [roles EXCEPT !["timestamp"] =
        KeyManager_sign(Keys, setNeedsSigning(roles["timestamp"], TRUE)).role]

\* RepoBuilder.stamp
stamp(roles) ==
    LET bound == [roles["timestamp"] EXCEPT !.snapver = roles["snapshot"].version]
    IN  [roles EXCEPT !["timestamp"] = KeyManager_sign(Keys, setNeedsSigning(bound, TRUE)).role]

\* RepoBuilder.makeSnapshot
makeSnapshot(roles, ufiles, consistent) ==
    LET afterContent == bindContent(roles, ufiles)
        afterMeta == bindMetadata(afterContent, consistent)
    IN  IF afterMeta.raised # "none" THEN afterMeta
        ELSE [raised |-> "none", roles |-> stamp(afterMeta.roles)]

RECURSIVE saveMeta(_, _, _, _)
\* RepoBuilder.saveMeta, the first `upTo` records of ourRoles.values(): the
\* loop stops where STRATEGY.save raises
saveMeta(dir, roles, consistent, upTo) ==
    IF upTo = 0 THEN [raised |-> "none", dir |-> dir, roles |-> roles, writes |-> 0]
    ELSE LET sofar == saveMeta(dir, roles, consistent, upTo - 1)
             rn == roleOrder[upTo]
         IN  IF sofar.raised # "none" THEN sofar
             ELSE LET res == RolesStrategy_save(sofar.dir, consistent, sofar.roles[rn])
                  IN  [raised |-> res.raised,
                       dir |-> res.dir,
                       roles |-> [sofar.roles EXCEPT ![rn] = res.role],
                       writes |-> sofar.writes + (IF res.role # sofar.roles[rn] THEN 1 ELSE 0)]

\* variant of getPrefixForUserFile: no prefix in either mode
getPrefixForUserFile_none(roles, consistent, fn) == [raised |-> "none", prefix |-> <<>>]

\* RepoBuilder.getPrefixForUserFile: the prefix, or KeyError for a user file
\* the targets role has no entry for
getPrefixForUserFile(roles, consistent, fn) ==
    IF consistent
    THEN IF fn \in DOMAIN roles["targets"].targets
         THEN [raised |-> "none", prefix |-> <<roles["targets"].targets[fn].sha256, ".">>]
         ELSE [raised |-> "KeyError", prefix |-> <<>>]
    ELSE [raised |-> "none", prefix |-> <<>>]

\* RepoBuilder.saveFiles
saveFiles(cont, roles, ufiles, consistent) ==
    LET name(fn) == getPrefixForUserFile(roles, consistent, fn).prefix \o <<fn>>
    IN  IF \E fn \in DOMAIN ufiles : getPrefixForUserFile(roles, consistent, fn).raised # "none"
        THEN [raised |-> "KeyError", content |-> cont]
        ELSE [raised |-> "none",
              content |-> [f \in (DOMAIN cont) \cup {name(fn) : fn \in DOMAIN ufiles} |->
                             IF \E fn \in DOMAIN ufiles : name(fn) = f
                             THEN ufiles[CHOOSE fn \in DOMAIN ufiles : name(fn) = f]
                             ELSE cont[f]]]

----------------------------------------------------------------------------
(* The builder's operations *)

\* a path bound by an earlier builder, no user file of this one
StoredPaths == {"old.txt"}

\* a directory from which a builder of a consistent-snapshot seed can be
\* loaded: its snapshot.json names a versioned targets file, which holds the
\* entries of the stored paths
SeedRepo ==
    LET tg1 == getConsistentFileName(ext, "targets", str(1))
        bound == [path \in StoredPaths |-> TargetFile_from_data(path, "hello")]
    IN  (tsName :> storedRole("timestamp", 1, 1, EmptyMap, EmptyMap))
        @@ (snName :> storedRole("snapshot", 1, 0, tg1 :> 1, EmptyMap))
        @@ (tg1 :> storedRole("targets", 1, 0, EmptyMap, bound))

Init ==
    /\ isConsistent \in BOOLEAN
    /\ files \in (IF isConsistent THEN {EmptyMap, SeedRepo} ELSE {EmptyMap})
    /\ content = EmptyMap
    /\ rr = createEmpty(rootRoleFac, kwargsFor(rootRoleFac, isConsistent))
    /\ last = Last("createEmpty", NoVersion, rr, FALSE, "none", FALSE)
    /\ builderIdle

Hist(h, op, cascade) ==
    [h EXCEPT !.lastOp = op, !.cascade = cascade,
              !.cycles = IF cascade = 3 THEN @ + 1 ELSE @]

\* RepoBuilder.__init__ once loadOrCreateRoles returned or raised
Constructed(useDir, got) ==
    IF got.raised # "none"
    THEN /\ pc' = "failed"
         /\ err' = got.raised
         /\ ourRoles' = EmptyMap
         /\ hist' = [InitHist EXCEPT !.lastOp = "construct",
                                     !.fromScratch = (~useDir \/ files = EmptyMap)]
    ELSE /\ pc' = "ready"
         /\ err' = "none"
         /\ ourRoles' = got.roles
         /\ hist' = [InitHist EXCEPT
                       !.lastOp = "construct",
                       !.fromScratch = \A rn \in DOMAIN got.roles : ~got.isLoaded[rn],
                       !.inSync = \A rn \in DOMAIN got.roles : got.isLoaded[rn],
                       !.base = [rn \in DOMAIN got.roles |-> got.roles[rn].version]]

\* RepoBuilder(seed, keys, repoRoot): __init__ and load
Construct ==
    /\ pc = "none"
    /\ \E useDir \in BOOLEAN :
          Constructed(useDir, loadOrCreateRoles(repoRootOf(useDir, files), isConsistent))
    /\ userFiles' = EmptyMap
    /\ savePos' = 0
    /\ rec' = NoRec
    /\ UNCHANGED <<isConsistent, files, content, rr, last>>

\* builder.userFiles[path] = data
AddUserFile ==
    /\ pc = "ready"
    /\ hist.cascade \in {0, 3}
    /\ \E path \in UserPaths, data \in UserData :
          userFiles' = [p \in (DOMAIN userFiles) \cup {path} |->
                          IF p = path THEN data ELSE userFiles[p]]
    /\ hist' = Hist(hist, "addUserFile", 0)
    /\ err' = "none"
    /\ rec' = NoRec
    /\ UNCHANGED <<isConsistent, files, content, rr, last, ourRoles, pc, savePos>>

\* the publish cascade is driven in the order of makeSnapshot: bindContent,
\* then bindMetadata, then stamp; a save may fall between any two of them
BindContent ==
    /\ pc = "ready"
    /\ hist.cascade \in {0, 3}
    /\ \A rn \in DOMAIN ourRoles : ourRoles[rn].version < MaxVersion
    /\ ourRoles' = bindContent(ourRoles, userFiles)
    /\ hist' = Hist(hist, "bindContent", 1)
    /\ err' = "none"
    /\ rec' = NoRec
    /\ UNCHANGED <<isConsistent, files, content, rr, last, userFiles, pc, savePos>>

BindMetadata ==
    /\ pc = "ready"
    /\ hist.cascade = 1
    /\ LET res == bindMetadata(ourRoles, isConsistent)
       IN  /\ ourRoles' = res.roles
           /\ err' = res.raised
           /\ hist' = Hist(hist, "bindMetadata",
                           IF res.raised = "none" THEN 2 ELSE 0)
    /\ rec' = NoRec
    /\ UNCHANGED <<isConsistent, files, content, rr, last, userFiles, pc, savePos>>

Stamp ==
    /\ pc = "ready"
    /\ hist.cascade = 2
    /\ ourRoles' = stamp(ourRoles)
    /\ hist' = Hist(hist, "stamp", 3)
    /\ err' = "none"
    /\ rec' = NoRec
    /\ UNCHANGED <<isConsistent, files, content, rr, last, userFiles, pc, savePos>>

MakeSnapshot ==
    /\ pc = "ready"
    /\ hist.cascade \in {0, 3}
    /\ \A rn \in DOMAIN ourRoles : ourRoles[rn].version < MaxVersion
    /\ LET res == makeSnapshot(ourRoles, userFiles, isConsistent)
       IN  /\ ourRoles' = res.roles
           /\ err' = res.raised
           /\ hist' = Hist(hist, "makeSnapshot", IF res.raised = "none" THEN 3 ELSE 0)
    /\ rec' = NoRec
    /\ UNCHANGED <<isConsistent, files, content, rr, last, userFiles, pc, savePos>>

\* RepoBuilder.save(repoRoot), run to its end or to the exception that ends it
Save ==
    /\ pc = "ready"
    /\ LET m == saveMeta(files, ourRoles, isConsistent, Len(roleOrder))
           f == saveFiles(content, m.roles, userFiles, isConsistent)
           raised == IF m.raised # "none" THEN m.raised ELSE f.raised
       IN  /\ files' = m.dir
           /\ ourRoles' = m.roles
           /\ content' = IF raised = "none" THEN f.content ELSE content
           /\ err' = raised
           /\ hist' = [hist EXCEPT !.lastOp = IF raised = "none" THEN "save" ELSE "saveRaised",
                                   !.writes = m.writes,
                                   !.torn = FALSE,
                                   !.cycleSave = (hist.cascade = 3),
                                   !.syncSave = hist.inSync,
                                   !.inSync = (hist.inSync \/ m.raised = "none")]
    /\ savePos' = Len(roleOrder)
    /\ rec' = NoRec
    /\ UNCHANGED <<isConsistent, rr, last, userFiles, pc>>

\* RepoBuilder.save(repoRoot) interrupted: the process stops after saveMeta
\* got through k role records, before anything else is written
SaveInterrupted ==
    /\ pc = "ready"
    /\ \E k \in 0..Len(roleOrder) :
          LET m == saveMeta(files, ourRoles, isConsistent, k)
              whole == saveMeta(files, ourRoles, isConsistent, Len(roleOrder))
          IN  /\ m.raised = "none"
              /\ files' = m.dir
              /\ ourRoles' = m.roles
              /\ savePos' = k
              /\ hist' = [hist EXCEPT !.lastOp = "saveInterrupted",
                                      !.writes = m.writes,
                                      !.torn = (/\ m.writes >= 1
                                                /\ whole.raised = "none"
                                                /\ whole.writes > m.writes),
                                      !.cycleSave = (hist.cascade = 3),
                                      !.syncSave = hist.inSync]
    /\ pc' = "crashed"
    /\ err' = "none"
    /\ rec' = NoRec
    /\ UNCHANGED <<isConsistent, content, rr, last, userFiles>>

Next ==
    \/ Construct
    \/ AddUserFile
    \/ BindContent
    \/ BindMetadata
    \/ Stamp
    \/ MakeSnapshot
    \/ Save
    \/ SaveInterrupted
    \/ Reconcile

Spec == Init /\ [][Next]_vars

----------------------------------------------------------------------------
(* Properties of the builder *)

\* C5: round trip, in simple and in consistent mode: a repository built from
\* scratch with user files, run through the publish cascade and saved, is
\* reconciled from the saved directory with a Targets entry for every saved
\* user file under its recorded hash, and with the Snapshot and Timestamp
\* versions that were written.
C5_RoundTrip ==
    /\ (hist.lastOp = "construct" /\ hist.fromScratch) => pc = "ready"
    /\ (/\ rec.ran /\ rec.useDir
        /\ pc = "ready" /\ hist.fromScratch
        /\ hist.lastOp = "save" /\ hist.cascade = 3) =>
           /\ rec.raised = "none"
           /\ \A path \in DOMAIN userFiles :
                 /\ path \in DOMAIN rec.roles["targets"].targets
                 /\ rec.roles["targets"].targets[path].sha256 = sha256(userFiles[path])
           /\ rec.roles["snapshot"].version = ourRoles["snapshot"].version
           /\ rec.roles["timestamp"].version = ourRoles["timestamp"].version

\* C7: after bindMetadata, whatever cycles came before and in either mode, the
\* Snapshot's metadata-file mapping has an entry for every role of the builder
\* except Snapshot and Timestamp, under that role's current file name and with
\* its current version, and no other entry.
C7_SnapshotMapping ==
    (pc = "ready" /\ hist.lastOp = "bindMetadata" /\ err = "none") =>
        LET listed == (DOMAIN ourRoles) \ {"snapshot", "timestamp"}
            nameOf(rn) == fileNameForRole(facOf(rn), ourRoles[rn].version, isConsistent)
            meta == ourRoles["snapshot"].meta
        IN  /\ DOMAIN meta = {nameOf(rn) : rn \in listed}
            /\ \A rn \in listed : meta[nameOf(rn)] = ourRoles[rn].version

VersionCheckError == "RuntimeError: Version within file doesn't match the expected version"

NameCheckError == "ValueError: Expected version from file name doesn't math the one from metadata"

\* the directory was left by a save of a complete cascade that stopped between
\* two role-file writes, and has been reconciled
tornSaveReconciled ==
    /\ rec.ran /\ rec.useDir
    /\ hist.lastOp = "saveInterrupted"
    /\ hist.cycleSave
    /\ hist.torn

\* C8 as claimed: wherever the save of a build cycle stops between two
\* role-file writes, in either mode, the next reconciliation of the directory
\* aborts through the version-agreement cross-check.
C8_TornSaveRejected ==
    tornSaveReconciled => rec.raised \in {VersionCheckError, NameCheckError}

\* C8 as amended: the same, for a builder that was loaded from the three role
\* files of the directory or has completed a save into it.
C8_TornSaveRejectedInSync ==
    (tornSaveReconciled /\ hist.syncSave) => rec.raised = VersionCheckError

\* simple mode, second save of a builder made from scratch: timestamp and
\* snapshot are written, the targets file is stale
C8_Witness ==
    /\ tornSaveReconciled
    /\ ~isConsistent
    /\ hist.fromScratch
    /\ hist.syncSave
    /\ savePos = 2
    /\ hist.writes = 2
    /\ rec.raised = VersionCheckError

----------------------------------------------------------------------------
(* Naming and discovery: OurRoleLayout on the file names of a directory *)

\* the highest version a file name of the directory carries
MaxNamedVersion == 11

\* the most file names the directory holds
MaxNames == 3

\* file names a directory may hold around the role roleName: its consistent
\* names, one with a leading zero, one followed by a further suffix, its
\* simple name and the name of another role
NamesAround(roleName) ==
    {getConsistentFileName(ext, roleName, str(v)) : v \in 0..MaxNamedVersion}
    \cup {getConsistentFileName(ext, roleName, <<"0">> \o str(1))}
    \cup {getConsistentFileName(ext, roleName, str(2)) \o <<".", "bak">>}
    \cup {getSimpleFileName(ext, roleName)}
    \cup {getConsistentFileName(ext, IF roleName = "targets" THEN "snapshot" ELSE "targets", str(1))}

\* the orders in which repoRoot.iterdir() may list the file names S
Listings(S) ==
    {l \in [1..Cardinality(S) -> S] : \A i, j \in 1..Cardinality(S) : l[i] = l[j] => i = j}

InitNaming ==
    /\ isConsistent = TRUE
    /\ content = EmptyMap
    /\ \E fac \in AllFacs :
          /\ rr = createEmpty(fac, kwargsFor(fac, isConsistent))
          /\ last = Last("createEmpty", NoVersion, rr, FALSE, "none", FALSE)
          /\ \E D \in SUBSET NamesAround(fac.name) :
                /\ Cardinality(D) <= MaxNames
                /\ files = [fn \in D |-> to_dict(rr)]
    /\ builderIdle

\* what the discovery of the role roleFactory gives on the listing fileNames:
\* discoverVersionsFromFileNames, and discoverConsistent's versions[-1]
Discovered(roleFactory, fileNames) ==
    [found |-> discoverVersionsFromFileNames(ext, roleFactory, fileNames, isConsistent),
     blind |-> lastVersion(discoverVersionsFromFileNames(ext, roleFactory, fileNames, isConsistent))]

\* layout.discoverVersionsFromFileNames and layout.discoverBlindFromRepo for a
\* role whose files the directory may hold, on the directory as it is listed;
\* the functions are pure, one application per directory shows all they do
Discover ==
    /\ last.op = "createEmpty"
    /\ \E fac \in {facOf(rr.name), targetsRoleFac, snapshotRoleFac},
          listing \in Listings(DOMAIN files) :
          last' = Last("discover", fac.name, rr, Discovered(fac, listing),
                       Discovered(fac, listing).found.raised, FALSE)
    /\ UNCHANGED <<isConsistent, files, content, rr, builderVars, rec>>

NextNaming == Discover

SpecNaming == InitNaming /\ [][NextNaming]_vars

\* versions of the consistent names of the role roleName the directory holds
namedVersions(roleName) ==
    {v \in 0..MaxNamedVersion :
        getFileName(ext, [name |-> roleName], v, TRUE) \in DOMAIN files}

\* C11: naming and discovery are inverse: when the directory holds the
\* consistent name built from (version, roleName, ext), the discovery of that
\* role returns the pair (version, that name); the pairs come sorted ascending
\* by version; blind discovery selects the highest version.
C11_NamingInverse ==
    (last.op = "discover") =>
        LET versions == last.ret.found.versions
            blind == last.ret.blind
        IN  /\ \A v \in namedVersions(last.arg) :
                  /\ last.raised = "none"
                  /\ \E i \in 1..Len(versions) :
                        versions[i] = <<v, getFileName(ext, [name |-> last.arg], v, TRUE)>>
                  /\ blind.version >= v
            /\ \A i, j \in 1..Len(versions) : i < j => versions[i][1] <= versions[j][1]
            /\ last.raised = "none" =>
                  /\ blind.raised = "none"
                  /\ blind.path \in DOMAIN files
                  /\ \E i \in 1..Len(versions) : versions[i] = <<blind.version, blind.path>>
                  /\ \A i \in 1..Len(versions) : versions[i][1] <= blind.version

\* the directory holds the names of versions 2, 9 and 10, which sort
\* otherwise as text than as numbers
C11_Witness ==
    /\ last.op = "discover"
    /\ last.raised = "none"
    /\ namedVersions(last.arg) = {2, 9, 10}
    /\ last.ret.blind.version = 10
    /\ Len(last.ret.found.versions) = 3

----------------------------------------------------------------------------
(* The seed: RepoSeed.make *)

\* the most distinct keys a key manager holds
MaxKeys == 3

RoleNames == {ROOT_ROLE_FAC.name} \cup DOMAIN ROLES_MODEL

\* key managers: a key for every role name, the same key for several roles
\* included (KeyManager.fromSingleKey)
KeyManagers == [RoleNames -> {<<"key", k>> : k \in 1..MaxKeys}]

\* RolesStrategy.createEmptyRoot: a fresh Root, which names the four roles
\* with no key authorized yet
createEmptyRoot(consistent) ==
    createEmpty(ROOT_ROLE_FAC, kwargsFor(ROOT_ROLE_FAC, consistent))
    @@ [roles |-> [rn \in RoleNames |-> <<>>]]

\* Root.add_key(key, role): the key's id is appended to the role's key ids
\* unless it is there already
add_key(root, key, roleName) ==
    IF \E i \in 1..Len(root.roles[roleName]) : root.roles[roleName][i] = key
    THEN root
    ELSE [root EXCEPT !.roles[roleName] = Append(@, key)]

\* variant of collectParentRoles: the direct dependencies only
collectParentRoles_direct(curRole) == curRole.deps

RECURSIVE collectParentRoles(_)
\* _collectParentRoles: every dependency followed by its own parents
collectParentRoles(curRole) ==
    IF Len(curRole.deps) = 0 THEN <<>>
    ELSE <<curRole.deps[1]>> \o collectParentRoles(facOf(curRole.deps[1]))
         \o collectParentRoles([curRole EXCEPT !.deps = Tail(@)])

RECURSIVE addKeysOf(_, _, _, _)
\* RepoBuilder.py:506-508: the keys of the roles depNames are added for roleName
addKeysOf(root, keys, roleName, depNames) ==
    IF Len(depNames) = 0 THEN root
    ELSE addKeysOf(add_key(root, keys[Head(depNames)], roleName), keys, roleName, Tail(depNames))

\* RepoBuilder.py:503-508: one role of the model gets its key, and its parents' keys
addRoleKeys(root, keys, roleFac, allowParentKeys) ==
    IF allowParentKeys
    THEN addKeysOf(add_key(root, keys[roleFac.name], roleFac.name), keys, roleFac.name,
                   collectParentRoles(roleFac))
    ELSE add_key(root, keys[roleFac.name], roleFac.name)

\* the order of ROLES_MODEL.values()
modelOrder == <<"targets", "snapshot", "timestamp">>

RECURSIVE addModelKeys(_, _, _, _)
addModelKeys(root, keys, order, allowParentKeys) ==
    IF Len(order) = 0 THEN root
    ELSE addModelKeys(addRoleKeys(root, keys, ROLES_MODEL[Head(order)], allowParentKeys),
                      keys, Tail(order), allowParentKeys)

\* RepoSeed.make: the root of the seed, signed with the root key
make(keys, consistent, allowParentKeys) ==
    sign(addModelKeys(add_key(createEmptyRoot(consistent), keys[ROOT_ROLE_FAC.name],
                              ROOT_ROLE_FAC.name),
                      keys, modelOrder, allowParentKeys),
         keys[ROOT_ROLE_FAC.name]).role

InitSeed ==
    /\ isConsistent \in BOOLEAN
    /\ files = EmptyMap
    /\ content = EmptyMap
    /\ rr = createEmptyRoot(isConsistent)
    /\ last = Last("createEmpty", NoVersion, rr, FALSE, "none", FALSE)
    /\ builderIdle

\* RepoSeed.make(keys, consistent, allowParentKeys)
Make ==
    /\ \E keys \in KeyManagers, allowParentKeys \in BOOLEAN :
          /\ rr' = make(keys, isConsistent, allowParentKeys)
          /\ last' = Last("make", [keys |-> keys, allowParentKeys |-> allowParentKeys],
                          createEmptyRoot(isConsistent), FALSE, "none", FALSE)
    /\ UNCHANGED <<isConsistent, files, content, builderVars, rec>>

NextSeed == Make

SpecSeed == InitSeed /\ [][NextSeed]_vars

\* the dependency chain of every role, as the claim lists it
chainOf(rn) ==
    CASE rn = "targets" -> {"root"}
      [] rn = "snapshot" -> {"targets", "root"}
      [] rn = "timestamp" -> {"snapshot", "targets", "root"}
      [] OTHER -> {}

authorized(rn) == {rr.roles[rn][i] : i \in 1..Len(rr.roles[rn])}

\* C12: after RepoSeed.make the keys the Root authorizes are, for root, the
\* root key; for every other role its own key, and with allowParentKeys also
\* the key of every role of its dependency chain; no other key.
C12_AuthorizedKeys ==
    (last.op = "make") =>
        /\ DOMAIN rr.roles = RoleNames
        /\ authorized("root") = {last.arg.keys["root"]}
        /\ \A rn \in RoleNames \ {"root"} :
              authorized(rn) =
                 {last.arg.keys[rn]} \cup
                 (IF last.arg.allowParentKeys
                  THEN {last.arg.keys[d] : d \in chainOf(rn)} ELSE {})

\* three different keys for root, targets and snapshot, parents allowed: the
\* timestamp is authorized for all of them
C12_Witness ==
    /\ last.op = "make"
    /\ last.arg.allowParentKeys
    /\ Cardinality({last.arg.keys[rn] : rn \in {"root", "targets", "snapshot"}}) = 3
    /\ Cardinality(authorized("timestamp")) = 3
    /\ Cardinality(authorized("root")) = 1

----------------------------------------------------------------------------
(* Loading the root: RolesStrategy.loadRoot on a directory *)

\* a stored root file of version v whose consistent_snapshot is c
storedRoot(v, c) ==
    to_dict(roleSign([newRole(ROOT_ROLE_FAC, kwargsFor(ROOT_ROLE_FAC, c)) EXCEPT !.version = v],
                     Keys["root"]))

\* data.glob("*." + nonConsistentName): the names that end with .<nonConsistentName>
globStar(dir, nonConsistentName) ==
    {fn \in DOMAIN dir :
        /\ Len(fn) >= Len(nonConsistentName) + 1
        /\ SubSeq(fn, Len(fn) - Len(nonConsistentName), Len(fn)) = <<".">> \o nonConsistentName}

\* variant of refuseToGuess: several candidates are not refused
refuseToGuess_never(consistentCands) == FALSE

\* RepoBuilder.py:392: more than one candidate
refuseToGuess(consistentCands) == Len(consistentCands) > 1

\* RepoBuilder.py:391-395: the candidate of the glob, when the simple file is absent
globbedRoot(dir, consistentCands) ==
    IF refuseToGuess(consistentCands)
    THEN [raised |-> "ValueError: More than one consistent cand in dir, refuse to guess",
          path |-> <<>>, role |-> newRole(ROOT_ROLE_FAC, EmptyMap)]
    ELSE IF Len(consistentCands) = 0
    THEN [raised |-> "IndexError", path |-> <<>>, role |-> newRole(ROOT_ROLE_FAC, EmptyMap)]
    ELSE [raised |-> loadFromFile(ROOT_ROLE_FAC, dir, consistentCands[1], NoVersion).raised,
          path |-> consistentCands[1],
          role |-> loadFromFile(ROOT_ROLE_FAC, dir, consistentCands[1], NoVersion).role]

\* RolesStrategy.loadRoot(data) for a directory data
loadRoot(dir) ==
    IF fileNameForRole(ROOT_ROLE_FAC, 0, FALSE) \in DOMAIN dir
    THEN [raised |-> loadFromFile(ROOT_ROLE_FAC, dir, fileNameForRole(ROOT_ROLE_FAC, 0, FALSE), NoVersion).raised,
          path |-> fileNameForRole(ROOT_ROLE_FAC, 0, FALSE),
          role |-> loadFromFile(ROOT_ROLE_FAC, dir, fileNameForRole(ROOT_ROLE_FAC, 0, FALSE), NoVersion).role]
    ELSE globbedRoot(dir, SetToSeq(globStar(dir, fileNameForRole(ROOT_ROLE_FAC, 0, FALSE))))

\* names of the directories the root is loaded from: the simple root file,
\* versioned root files and the file of another role
RootDirNames ==
    {getSimpleFileName(ext, "root")}
    \cup {getConsistentFileName(ext, "root", str(v)) : v \in 1..MaxStored}
    \cup {getConsistentFileName(ext, "targets", str(1))}

RootDirFamily ==
    UNION {[D -> {storedRoot(v, c) : v \in 1..MaxStored, c \in BOOLEAN}] : D \in SUBSET RootDirNames}

InitRootLoad ==
    /\ isConsistent = FALSE
    /\ files \in RootDirFamily
    /\ content = EmptyMap
    /\ rr = createEmpty(rootRoleFac, kwargsFor(rootRoleFac, isConsistent))
    /\ last = Last("createEmpty", NoVersion, rr, FALSE, "none", FALSE)
    /\ builderIdle

\* RepoSeed.load(directory): the seed's root is the loaded one
LoadRoot ==
    /\ last.op = "createEmpty"
    /\ rr' = IF loadRoot(files).raised = "none" THEN loadRoot(files).role ELSE rr
    /\ isConsistent' = rr'.consistent_snapshot
    /\ last' = Last("loadRoot", NoVersion, rr, loadRoot(files).path, loadRoot(files).raised, FALSE)
    /\ UNCHANGED <<files, content, builderVars, rec>>

NextRootLoad == LoadRoot

SpecRootLoad == InitRootLoad /\ [][NextRootLoad]_vars

simpleRootName == getSimpleFileName(ext, "root")

starRootNames ==
    {fn \in DOMAIN files : Len(fn) >= 4 /\ SubSeq(fn, Len(fn) - 3, Len(fn)) = <<".", "root", ".", ext>>}

\* C13: loading the root from a directory uses the simple file root.<ext>
\* when it exists; otherwise the single file matching *.root.<ext>; with more
\* than one match it fails with an error and chooses none of them.
C13_LoadRoot ==
    (last.op = "loadRoot") =>
        /\ simpleRootName \in DOMAIN files =>
              /\ last.raised = "none"
              /\ last.ret = simpleRootName
              /\ to_dict(rr) = files[simpleRootName]
        /\ (simpleRootName \notin DOMAIN files /\ Cardinality(starRootNames) = 1) =>
              /\ last.raised = "none"
              /\ last.ret \in starRootNames
              /\ to_dict(rr) = files[last.ret]
        /\ (simpleRootName \notin DOMAIN files /\ Cardinality(starRootNames) > 1) =>
              /\ last.raised = "ValueError: More than one consistent cand in dir, refuse to guess"
              /\ rr = last.before

\* no simple root file and two versioned ones
C13_Witness ==
    /\ last.op = "loadRoot"
    /\ simpleRootName \notin DOMAIN files
    /\ Cardinality(starRootNames) = 2
    /\ last.raised # "none"

----------------------------------------------------------------------------
(* Properties of the publish cascade and of save *)

\* C14: after every complete publish cascade (bindContent, bindMetadata,
\* stamp in this order), after any number of cycles and in either mode, the
\* Timestamp's referenced snapshot version is the Snapshot's current version,
\* and the version the Snapshot records for the Targets file is the Targets
\* record's current version.
C14_CascadeAgreement ==
    (pc = "ready" /\ hist.cascade = 3) =>
        LET tgFile == fileNameForRole(targetsRoleFac, ourRoles["targets"].version, isConsistent)
        IN  /\ ourRoles["timestamp"].snapver = ourRoles["snapshot"].version
            /\ tgFile \in DOMAIN ourRoles["snapshot"].meta
            /\ ourRoles["snapshot"].meta[tgFile] = ourRoles["targets"].version

\* a later cycle in consistent mode, closed by stamp
C14_Witness ==
    /\ pc = "ready"
    /\ hist.cascade = 3
    /\ hist.lastOp = "stamp"
    /\ isConsistent
    /\ ourRoles["snapshot"].version >= 2
    /\ ourRoles["timestamp"].snapver = ourRoles["snapshot"].version

\* the name RepoBuilder.save gives the user file path: the recorded hash and
\* a dot before the path in consistent mode, the bare path otherwise
savedUserFileName(path) ==
    IF isConsistent THEN <<ourRoles["targets"].targets[path].sha256, ".", path>>
    ELSE <<path>>

\* a step of RepoBuilder.save that ran to its end without raising
saveStep == pc = "ready" /\ hist'.lastOp = "save" /\ rec' = NoRec

\* what C15 says of one step
C15_Step ==
    /\ saveStep =>
          LET needing == {rn \in DOMAIN ourRoles : ourRoles[rn].needsSaving}
              nameOf(rn) == fileNameForRole(facOf(rn), ourRoles[rn].version, isConsistent)
          IN  /\ \A rn \in needing :
                    /\ nameOf(rn) \in DOMAIN files'
                    /\ files'[nameOf(rn)] = to_dict(ourRoles[rn])
                    /\ ourRoles'[rn] = [ourRoles[rn] EXCEPT !.needsSaving = FALSE]
              /\ \A rn \in (DOMAIN ourRoles) \ needing : ourRoles'[rn] = ourRoles[rn]
              /\ \A fn \in DOMAIN files' :
                    fn \notin {nameOf(rn) : rn \in needing} =>
                       fn \in DOMAIN files /\ files'[fn] = files[fn]
              /\ \A path \in DOMAIN userFiles :
                    /\ isConsistent => path \in DOMAIN ourRoles["targets"].targets
                    /\ savedUserFileName(path) \in DOMAIN content'
                    /\ content'[savedUserFileName(path)] = userFiles[path]
              /\ \A rn \in DOMAIN ourRoles' : ~ourRoles'[rn].needsSaving
    /\ content' # content => \A rn \in DOMAIN ourRoles' : ~ourRoles'[rn].needsSaving

\* C15: RepoBuilder.save writes exactly the role records whose needsSaving
\* flag is set and skips the others, clears the flag of each record it
\* writes, and writes the user files only after all role files, under
\* <sha256>.<path> in consistent mode and under the bare path otherwise;
\* after a successful save no role record of the builder needs saving.
C15_SaveWritesNeeding == [][C15_Step]_vars

\* a save in consistent mode that wrote the three role files and a user file
C15_Witness ==
    /\ pc = "ready"
    /\ hist.lastOp = "save"
    /\ rec = NoRec
    /\ isConsistent
    /\ hist.writes = 3
    /\ DOMAIN content # {}
    /\ DOMAIN userFiles # {}

----------------------------------------------------------------------------
(* Further properties of the reconciliation *)

\* C16: whenever the reconciliation loads both Timestamp and Snapshot from
\* storage, the Snapshot it returns has the version the Timestamp refers to;
\* a stored Snapshot whose payload version differs from that reference aborts
\* the reconciliation with the version-disagreement error.
C16_SnapshotAtReferencedVersion ==
    (rec.ran /\ rec.useDir) =>
        /\ (/\ rec.raised = "none"
            /\ rec.isLoaded["timestamp"]
            /\ rec.isLoaded["snapshot"]) =>
               /\ rec.roles["snapshot"].version = rec.roles["timestamp"].snapver
               /\ rec.roles["snapshot"].version = files[snName].version
        /\ (/\ tsName \in DOMAIN files
            /\ snName \in DOMAIN files
            /\ files[snName].version # files[tsName].snapver) =>
               /\ rec.raised = VersionCheckError
               /\ rec.roles = EmptyMap

\* the timestamp refers to version 2, the stored snapshot is at version 1
C16_Witness ==
    /\ rec.ran /\ rec.useDir
    /\ tsName \in DOMAIN files
    /\ snName \in DOMAIN files
    /\ files[tsName].snapver = 2
    /\ files[snName].version = 1
    /\ rec.raised = VersionCheckError

\* the names of the snapshot's mapping that the discovery of the Targets role
\* takes as candidates in the directory's mode
candidatesOf(meta) ==
    IF isConsistent THEN targetsCandidates(meta)
    ELSE {fn \in DOMAIN meta : fn = tgName}

----------------------------------------------------------------------------
(* Further properties of the role record *)

\* C18: across any sequence of set version, bumpVersion, sign and save the
\* version of a role record never decreases; a freshly created record starts
\* at the sentinel 0 and dirty; a record that is not dirty has version >= 1.
C18_VersionMonotonic ==
    /\ last.op \in {"setVersion", "bumpVersion", "sign", "save"} =>
          /\ rr.version >= last.before.version
          /\ rr.name = last.before.name
    /\ last.op = "createEmpty" => (rr.version = 0 /\ rr.needsSigning)
    /\ ~rr.needsSigning => rr.version >= 1

\* a signed record of version 2 or more went through a save
C18_Witness ==
    /\ last.op = "save"
    /\ last.wrote
    /\ ~rr.needsSigning
    /\ rr.version >= 2
    /\ rr.version = last.before.version

\* C19: a role record loaded from storage is in the signed/persisted state:
\* needsSigning and needsSaving are false and its version is that of the
\* stored payload, so saving it right after loading writes nothing.
C19_LoadedIsClean ==
    /\ (last.op = "load" /\ last.raised = "none") =>
          /\ ~rr.needsSigning
          /\ ~rr.needsSaving
          /\ \E fn \in DOMAIN files : files[fn] = to_dict(rr)
          /\ last.arg # NoVersion => rr.version = last.arg
          /\ RolesStrategy_save(files, isConsistent, rr) =
                [raised |-> "none", dir |-> files, role |-> rr]
    /\ (last.op = "save" /\ ~last.before.needsSaving) =>
          /\ last.raised = "none"
          /\ ~last.wrote
          /\ rr = last.before

\* a stored payload of version 2 replaced a dirty record
C19_Witness ==
    /\ last.op = "load"
    /\ last.raised = "none"
    /\ last.before.needsSigning
    /\ rr.version = 2
    /\ rr # last.before

\* C20: setting the version to a higher value stores that value and marks
\* the record dirty and needing save; setting it to the current value changes
\* neither the version nor a flag.
C20_SetVersion ==
    (last.op = "setVersion") =>
        /\ last.arg > last.before.version =>
              /\ last.raised = "none"
              /\ rr.version = last.arg
              /\ rr.needsSigning
              /\ rr.needsSaving
              /\ rr = [last.before EXCEPT !.version = last.arg,
                                          !.needsSigning = TRUE, !.needsSaving = TRUE]
        /\ last.arg = last.before.version =>
              /\ last.raised = "none"
              /\ rr = last.before

\* a record that was signed and saved is set to a higher version
C20_Witness ==
    /\ last.op = "setVersion"
    /\ last.arg > last.before.version
    /\ ~last.before.needsSigning
    /\ ~last.before.needsSaving
    /\ rr.needsSigning

----------------------------------------------------------------------------
(* File names of saved role records *)

\* the file name the claim gives a record: <version>.<roleName>.<ext> for
\* Targets and Snapshot in consistent mode, <roleName>.<ext> otherwise
savedRoleFileName(r) ==
    IF isConsistent /\ r.name \in {"targets", "snapshot"}
    THEN str(r.version) \o <<".", r.name, ".", ext>>
    ELSE <<r.name, ".", ext>>

\* what C21 says of one step: a step that changes the directory wrote the
\* record's payload under that name and nothing else
C21_Step ==
    files' # files =>
        /\ savedRoleFileName(rr) \in DOMAIN files'
        /\ files'[savedRoleFileName(rr)] = to_dict(rr)
        /\ \A fn \in DOMAIN files' :
              fn # savedRoleFileName(rr) => (fn \in DOMAIN files /\ files'[fn] = files[fn])

\* C21: a role record is saved under <roleName>.<ext> for Root and Timestamp
\* in both modes; for Targets and Snapshot under <roleName>.<ext> in simple
\* mode and under <version>.<roleName>.<ext>, with the record's current
\* version, in consistent mode.
C21_SavedFileName == [][C21_Step]_vars

\* a snapshot of version 2 saved in consistent mode, beside its version 1
C21_Witness ==
    /\ last.op = "save"
    /\ last.wrote
    /\ isConsistent
    /\ rr.name = "snapshot"
    /\ rr.version = 2
    /\ <<"2", ".", "snapshot", ".", "json">> \in DOMAIN files
    /\ <<"1", ".", "snapshot", ".", "json">> \in DOMAIN files

----------------------------------------------------------------------------
(* Loading the seed: RepoSeed.load on a path, on raw data, on a structure *)

\* the inputs of RepoSeed.load: a directory, the path of a file of it, the
\* encoded payload as bytes or as text, the decoded payload
asBytes(dic) == [kind |-> "bytes", value |-> dic]

asText(dic) == [kind |-> "str", value |-> dic]

asDict(dic) == [kind |-> "dict", value |-> dic]

asDir(dir) == [kind |-> "dir", value |-> dir]

asFile(dir, fn) == [kind |-> "file", value |-> dir, path |-> fn]

\* data.decode("utf-8")
decode(data) == [kind |-> "str", value |-> data.value]

\* serializer.process(text): the structure the text encodes
process(data) == [kind |-> IF DOMAIN data.value = DOMAIN storedRoot(1, FALSE)
                           THEN "dict" ELSE "other",
                  value |-> data.value]

\* RepoBuilder.py:187-191: bytes are decoded, text is parsed
decoded(data) ==
    IF data.kind = "bytes" THEN process(decode(data))
    ELSE IF data.kind = "str" THEN process(data)
    ELSE data

\* RolePersister.deserializeData
deserializeData(data) ==
    IF decoded(data).kind # "dict"
    THEN [raised |-> "ValueError: Incorrect data", dic |-> <<>>]
    ELSE [raised |-> "none", dic |-> decoded(data).value]

\* RolesStrategy.loadFromData for the root, on raw data
loadRootFromData(data) ==
    IF deserializeData(data).raised # "none"
    THEN [raised |-> deserializeData(data).raised, role |-> newRole(ROOT_ROLE_FAC, EmptyMap)]
    ELSE loadFromData(ROOT_ROLE_FAC, deserializeData(data).dic, NoVersion)

\* RolesStrategy.loadRoot(data): a path, bytes or text; anything else is refused
loadRootOf(data) ==
    IF data.kind = "dir"
    THEN [raised |-> loadRoot(data.value).raised, role |-> loadRoot(data.value).role]
    ELSE IF data.kind = "file"
    THEN loadRootFromData(asBytes(data.value[data.path]))
    ELSE IF data.kind \in {"bytes", "str"}
    THEN loadRootFromData(data)
    ELSE [raised |-> "TypeError: data is of wrong type", role |-> newRole(ROOT_ROLE_FAC, EmptyMap)]

\* the payload an input holds: for a directory, the root file that C13 names
payloadOf(data) ==
    IF data.kind = "dir"
    THEN (IF simpleRootName \in DOMAIN data.value THEN data.value[simpleRootName]
          ELSE data.value[CHOOSE fn \in DOMAIN data.value :
                             Len(fn) >= 4 /\ SubSeq(fn, Len(fn) - 3, Len(fn)) = <<".", "root", ".", ext>>])
    ELSE IF data.kind = "file" THEN data.value[data.path]
    ELSE data.value

\* directories of at most two files
SeedDirFamily == {d \in RootDirFamily : Cardinality(DOMAIN d) <= 2}

\* a directory with one root file to find
loadableDir(d) ==
    \/ simpleRootName \in DOMAIN d
    \/ Cardinality({fn \in DOMAIN d :
           Len(fn) >= 4 /\ SubSeq(fn, Len(fn) - 3, Len(fn)) = <<".", "root", ".", ext>>}) = 1

\* what RepoSeed.load is given, with the directory `files` at hand
SeedInputs ==
    (IF loadableDir(files) THEN {asDir(files)} ELSE {})
    \cup {asFile(files, fn) : fn \in DOMAIN files}
    \cup {asBytes(storedRoot(v, c)) : v \in 1..MaxStored, c \in BOOLEAN}
    \cup {asText(storedRoot(v, c)) : v \in 1..MaxStored, c \in BOOLEAN}
    \cup {asDict(storedRoot(v, c)) : v \in 1..MaxStored, c \in BOOLEAN}

InitSeedLoad ==
    /\ isConsistent = FALSE
    /\ files \in SeedDirFamily
    /\ content = EmptyMap
    /\ rr = createEmpty(rootRoleFac, kwargsFor(rootRoleFac, isConsistent))
    /\ last = Last("createEmpty", NoVersion, rr, FALSE, "none", FALSE)
    /\ builderIdle

\* RepoSeed.load(data, keys)
SeedLoad ==
    /\ last.op = "createEmpty"
    /\ \E data \in SeedInputs :
          /\ rr' = IF loadRootOf(data).raised = "none" THEN loadRootOf(data).role ELSE rr
          /\ last' = Last("seedLoad", data.kind, rr, payloadOf(data), loadRootOf(data).raised, FALSE)
    /\ isConsistent' = rr'.consistent_snapshot
    /\ UNCHANGED <<files, content, builderVars, rec>>

NextSeedLoad == SeedLoad

SpecSeedLoad == InitSeedLoad /\ [][NextSeedLoad]_vars

\* C22: RepoSeed.load accepts a directory or file path, raw bytes or text,
\* and an already-decoded structure, and in each case returns a seed whose
\* Root has the version of the given payload and is neither dirty nor needing
\* save.
C22_SeedLoadKinds ==
    (last.op = "seedLoad") =>
        /\ last.raised = "none"
        /\ to_dict(rr) = last.ret
        /\ rr.version = last.ret.version
        /\ ~rr.needsSigning
        /\ ~rr.needsSaving

----------------------------------------------------------------------------
(* bindContent: the entries of the Targets payload *)

\* a step of RepoBuilder.bindContent
bindContentStep == hist'.lastOp = "bindContent" /\ hist'.cascade = 1 /\ hist.cascade # 1

C23_Step ==
    bindContentStep =>
        LET old == ourRoles["targets"].targets
            new == ourRoles'["targets"].targets
        IN  /\ DOMAIN new = (DOMAIN old) \cup (DOMAIN userFiles)
            /\ \A path \in DOMAIN userFiles :
                  /\ new[path].length = length(userFiles[path])
                  /\ new[path].sha256 = sha256(userFiles[path])
            /\ \A path \in (DOMAIN old) \ (DOMAIN userFiles) : new[path] = old[path]
            /\ ~ourRoles'["targets"].needsSigning
            /\ ourRoles'["targets"].sig = [key |-> Keys["targets"],
                                           over |-> signedPart(ourRoles'["targets"])]

\* C23: after bindContent the Targets payload has, for every user file, an
\* entry keyed by its path with the length and hash of its current content;
\* the entries of paths that are no user files are unchanged, and Targets is
\* signed and not dirty.
C23_BindContent == [][C23_Step]_vars

\* a loaded builder bound its user file in its second cycle, next
\* to the stored entry
C23_Witness ==
    /\ pc = "ready"
    /\ hist.lastOp = "bindContent"
    /\ DOMAIN ourRoles["targets"].targets = {"old.txt", "a.txt"}
    /\ DOMAIN userFiles = {"a.txt"}
    /\ userFiles["a.txt"] = "world!"
    /\ ourRoles["targets"].targets["a.txt"].length = 6
    /\ ourRoles["targets"].targets["old.txt"].length = 5
    /\ ourRoles["targets"].version = 3
    /\ ~ourRoles["targets"].needsSigning

----------------------------------------------------------------------------
(* The paths of save and the paths of the reconciliation *)

\* the file RolesStrategy.save wrote for the builder's record of the role
savedAt(rn) == fileNameForRole(facOf(rn), ourRoles[rn].version, isConsistent)

\* C24: for every role kind and in each consistency mode the reconciliation
\* looks for a role at the path save wrote it to in that mode: after a cycle
\* and a completed save the reconciliation of the directory loads the
\* Timestamp, the Snapshot and the Targets from the files just written, none
\* of them is treated as absent.
C24_SavedIsFound ==
    (/\ rec.ran /\ rec.useDir
     /\ pc = "ready" /\ hist.lastOp = "save" /\ hist.cascade = 3) =>
        /\ rec.raised = "none"
        /\ \A rn \in {"timestamp", "snapshot", "targets"} :
              /\ rec.isLoaded[rn]
              /\ savedAt(rn) \in DOMAIN files
              /\ to_dict(rec.roles[rn]) = files[savedAt(rn)]

----------------------------------------------------------------------------
(* The two flags of a role record *)

\* C25: in every state a role record reaches through createEmpty, load,
\* version set, bumpVersion, sign and RolePersister.save, needsSigning implies
\* needsSaving: a dirty record is always also marked as needing save.
C25_DirtyNeedsSaving == rr.needsSigning => rr.needsSaving

\* a loaded, clean record became dirty by a version set and is marked for
\* saving with it
C25_Witness ==
    /\ last.op = "setVersion"
    /\ last.raised = "none"
    /\ ~last.before.needsSigning
    /\ ~last.before.needsSaving
    /\ rr.needsSigning
    /\ rr.needsSaving

----------------------------------------------------------------------------
(* The versions over the publish cycles *)

cycleRoles == {"targets", "snapshot", "timestamp"}

\* C26: every makeSnapshot cycle raises the versions of Targets, Snapshot and
\* Timestamp by exactly one each, also when the set of user files is empty or
\* unchanged: between two cycles each of the three versions is the version
\* the builder was constructed with plus the number of completed cycles, so
\* for a builder created from scratch the three versions are equal to the
\* number of completed cycles.
C26_VersionsCountCycles ==
    (pc = "ready" /\ hist.cascade \in {0, 3}) =>
        /\ \A rn \in cycleRoles : ourRoles[rn].version = hist.base[rn] + hist.cycles
        /\ hist.fromScratch => \A rn \in cycleRoles : ourRoles[rn].version = hist.cycles

\* a builder created from scratch ran two cycles without any user file
C26_Witness ==
    /\ pc = "ready"
    /\ hist.fromScratch
    /\ hist.cascade = 3
    /\ hist.cycles = 2
    /\ userFiles = EmptyMap
    /\ \A rn \in cycleRoles : ourRoles[rn].version = 2

====
